---- MODULE Spec2Model ----
(***************************************************************************)
(* A model of the light-system SDK helpers: PackedAccounts (the account    *)
(* packing bookkeeping), getLightSystemAccountMetasV2 (the system account  *)
(* resolver) and resolveCommonAccounts (the SDK's defaulting of the common *)
(* accounts of an instruction).                                            *)
(*                                                                         *)
(* Addresses are strings.  An absent optional value is the string          *)
(* "undefined".  An AccountMeta is a record [address, role]; a role is the *)
(* name of the AccountRole member.  A PackedMeta is the pair               *)
(* <<index, meta>>, as in the source.                                      *)
(***************************************************************************)
EXTENDS Integers, Sequences, FiniteSets, TLC

VARIABLES
    instance,        \* whether the caller holds a PackedAccounts: "none", "constructing", "visible", "unavailable"
    map,             \* PackedAccounts.map: Address -> <<index, meta>>
    nextIndex,       \* PackedAccounts.nextIndex
    preAccounts,     \* PackedAccounts.preAccounts
    systemAccounts,  \* PackedAccounts.systemAccounts
    calls,           \* the getLightSystemAccountMetasV2 / addSystemAccountsV2 calls in flight, by slot
    completed,       \* how many addSystemAccountsV2 calls have pushed their metas
    ret,             \* what the last operation returned to (or threw at) its caller
    seen,            \* history: the first insertion request of each distinct address, in first-seen order
    returnedIdx,     \* history: every <<address, index>> an insert call has returned
    sdk,             \* the SDK object: [defaults, programAddress]
    build,           \* the build*Instruction call in flight
    send,            \* the buildAndSignTransaction / sendAndConfirmInstructions call in flight
    caller           \* how the caller uses a PackedAccounts: "sequential" awaits every
                     \* asynchronous call before its next call, "concurrent" does not

vars == <<instance, map, nextIndex, preAccounts, systemAccounts, calls, completed,
          ret, seen, returnedIdx, sdk, build, send, caller>>

packedVars == <<instance, map, nextIndex, preAccounts, systemAccounts, calls, completed,
                ret, seen, returnedIdx>>

sdkVars == <<sdk, build>>

sendVars == <<send>>

callerVars == <<caller>>

(***************************************************************************)
(* Bounds of the model.                                                    *)
(***************************************************************************)
MaxPre == 2
MaxSystemCalls == 2
MaxInFlight == 2
MaxRemaining == 2

(***************************************************************************)
(* Program constants.                                                      *)
(***************************************************************************)
undefined == "undefined"

DEFAULT_REGISTERED_PROGRAM_PDA_ADDRESS == "35hkDgaA"
DEFAULT_NOOP_PROGRAM_ADDRESS == "noopb9bk"
DEFAULT_ACCOUNT_COMPRESSION_PROGRAM_ADDRESS == "compr6CU"
DEFAULT_SYSTEM_PROGRAM_ADDRESS == "11111111"
CPI_AUTHORITY_SEED == "cpi_authority"

READONLY == "READONLY"
WRITABLE == "WRITABLE"
READONLY_SIGNER == "READONLY_SIGNER"
WRITABLE_SIGNER == "WRITABLE_SIGNER"
AccountRole == {READONLY, WRITABLE, READONLY_SIGNER, WRITABLE_SIGNER}

(***************************************************************************)
(* JavaScript's x ?? y and truthiness of an optional address.              *)
(***************************************************************************)
Coalesce(x, y) == IF x = undefined THEN y ELSE x

Truthy(x) == x /= undefined /\ x /= ""

Meta(address, role) == [address |-> address, role |-> role]

(***************************************************************************)
(* getProgramDerivedAddress: the external derivation, a function of the    *)
(* program address and the seeds when it succeeds.  It may also reject.    *)
(***************************************************************************)
getProgramDerivedAddress(programAddress, seed) == "pda(" \o programAddress \o "," \o seed \o ")"

DeriveErrors == {"derivation failed"}

\* deriveAccountCompressionAuthority, when the derivation succeeds
deriveAccountCompressionAuthority(programAddress) ==
    getProgramDerivedAddress(programAddress, CPI_AUTHORITY_SEED)

(***************************************************************************)
(* PackedAccounts: the synchronous operations.                             *)
(***************************************************************************)
NoReturn == [op |-> "none"]

\* the caller holds the instance and awaits every asynchronous call before the next operation
FreeCall == [pc |-> "free"]

Slots == 1..MaxInFlight

\* the addSystemAccountsV2 calls whose promise has not settled
InFlight == {s \in Slots : calls[s] /= FreeCall}

\* the caller holds the instance and, when it awaits every call, no call is in flight
Quiescent == instance = "visible" /\ (caller = "sequential" => InFlight = {})

\* new PackedAccounts()
New ==
    /\ instance = "none"
    /\ instance' = "visible"
    /\ UNCHANGED <<map, nextIndex, preAccounts, systemAccounts, calls, completed,
                   ret, seen, returnedIdx>>

addPreAccountsMeta(accountMeta) ==
    /\ Quiescent
    /\ Len(preAccounts) < MaxPre
    /\ preAccounts' = Append(preAccounts, accountMeta)
    /\ ret' = NoReturn
    /\ UNCHANGED <<instance, map, nextIndex, systemAccounts, calls, completed, seen, returnedIdx>>

addPreAccountsSigner(address) ==
    /\ Quiescent
    /\ Len(preAccounts) < MaxPre
    /\ preAccounts' = Append(preAccounts, Meta(address, READONLY_SIGNER))
    /\ ret' = NoReturn
    /\ UNCHANGED <<instance, map, nextIndex, systemAccounts, calls, completed, seen, returnedIdx>>

addPreAccountsSignerMut(address) ==
    /\ Quiescent
    /\ Len(preAccounts) < MaxPre
    /\ preAccounts' = Append(preAccounts, Meta(address, WRITABLE_SIGNER))
    /\ ret' = NoReturn
    /\ UNCHANGED <<instance, map, nextIndex, systemAccounts, calls, completed, seen, returnedIdx>>

\* the role insertOrGetConfig computes from its flags
RoleOf(isSigner, isWritable) ==
    IF isSigner
    THEN (IF isWritable THEN WRITABLE_SIGNER ELSE READONLY_SIGNER)
    ELSE (IF isWritable THEN WRITABLE ELSE READONLY)

\* a variant without the lookup
ExistingNever(address) == FALSE

\* const existing = this.map.get(address); if (existing) ...
Existing(address) == address \in DOMAIN map

\* a variant that reads nextIndex after the increment
NewIndexPreIncrement == nextIndex + 1

\* const index = this.nextIndex: the index a new entry gets
NewIndex == nextIndex

\* a variant in which the last request sets the role of an existing entry
GetExistingUpgrade(address, isSigner, isWritable) ==
    /\ ret' = [op |-> "insert", address |-> address, index |-> map[address][1],
               requested |-> RoleOf(isSigner, isWritable),
               repeat |-> (ret.op = "insert" /\ ret.address = address)]
    /\ map' = [map EXCEPT ![address] =
                  <<map[address][1], Meta(address, RoleOf(isSigner, isWritable))>>]
    /\ UNCHANGED <<nextIndex, seen>>

\* if (existing) return existing[0]: the entry is left as it is
GetExisting(address, isSigner, isWritable) ==
    /\ ret' = [op |-> "insert", address |-> address, index |-> map[address][1],
               requested |-> RoleOf(isSigner, isWritable),
               repeat |-> (ret.op = "insert" /\ ret.address = address)]
    /\ UNCHANGED <<map, nextIndex, seen>>

insertOrGetConfig(address, isSigner, isWritable) ==
    /\ Quiescent
    /\ IF Existing(address)
       THEN GetExisting(address, isSigner, isWritable)
       ELSE LET index == NewIndex
                role == RoleOf(isSigner, isWritable)
            IN  /\ nextIndex' = nextIndex + 1
                /\ map' = [a \in DOMAIN map \cup {address} |->
                              IF a = address THEN <<index, Meta(address, role)>> ELSE map[a]]
                /\ ret' = [op |-> "insert", address |-> address, index |-> index,
                           requested |-> role,
                           repeat |-> (ret.op = "insert" /\ ret.address = address)]
                /\ seen' = IF \E k \in 1..Len(seen) : seen[k].address = address
                           THEN seen
                           ELSE Append(seen, Meta(address, role))
    /\ returnedIdx' = returnedIdx \cup {<<address, ret'.index>>}
    /\ UNCHANGED <<instance, preAccounts, systemAccounts, calls, completed>>

insertOrGet(address) == insertOrGetConfig(address, FALSE, TRUE)

insertOrGetReadOnly(address) == insertOrGetConfig(address, FALSE, FALSE)

(***************************************************************************)
(* toAccountMetas.                                                         *)
(***************************************************************************)
RECURSIVE SortByIndex(_)
\* [...values].sort((a, b) => a[0] - b[0])
SortByIndex(entries) ==
    IF entries = {}
    THEN <<>>
    ELSE LET e == CHOOSE x \in entries : \A y \in entries : x[1] <= y[1]
         IN  <<e>> \o SortByIndex(entries \ {e})

\* const packed = [...this.map.values()].sort(...).map((entry) => entry[1])
Packed ==
    LET sorted == SortByIndex({map[a] : a \in DOMAIN map})
    IN  [i \in 1..Len(sorted) |-> sorted[i][2]]

\* const systemStart = this.preAccounts.length
SystemStart == Len(preAccounts)

\* a variant that leaves the pre-accounts out of packedStart
PackedStartNoPre == Len(systemAccounts)

\* const packedStart = systemStart + this.systemAccounts.length
PackedStart == SystemStart + Len(systemAccounts)

\* a variant that lists the system accounts first
RemainingAccountsSystemFirst == systemAccounts \o preAccounts \o Packed

\* [...this.preAccounts, ...this.systemAccounts, ...packed]
RemainingAccounts == preAccounts \o systemAccounts \o Packed

\* a variant that hands out this.preAccounts itself when nothing else is listed
ReturnedArrayIsPreAccounts ==
    IF systemAccounts = <<>> /\ DOMAIN map = {} THEN "preAccounts" ELSE "new"

\* which array object the returned remainingAccounts is: the array literal allocates a new one
ReturnedArray == "new"

ToAccountMetasResult ==
    [packedStart |-> PackedStart, remainingAccounts |-> RemainingAccounts,
     systemStart |-> SystemStart]

toAccountMetas ==
    /\ Quiescent
    /\ ret' = [op |-> "toAccountMetas",
               returned |-> ToAccountMetasResult,
               remainingAccounts |-> ToAccountMetasResult.remainingAccounts,
               array |-> ReturnedArray,
               pristine |-> TRUE,
               after |-> IF ret.op = "toAccountMetas"
                         THEN (IF ret.pristine THEN ret.after ELSE "mutation")
                         ELSE "other"]
    /\ UNCHANGED <<instance, map, nextIndex, preAccounts, systemAccounts, calls, completed,
                   seen, returnedIdx>>

\* the caller changes the array it was returned: pops its last element, or pushes one
JunkMeta == Meta("junk", WRITABLE)

Mutated(list, kind) ==
    IF kind = "pop" THEN SubSeq(list, 1, Len(list) - 1) ELSE Append(list, JunkMeta)

MutateReturned(kind) ==
    /\ Quiescent
    /\ ret.op = "toAccountMetas"
    /\ ret.pristine
    /\ kind = "pop" => Len(ret.remainingAccounts) > 0
    /\ ret' = [ret EXCEPT !.remainingAccounts = Mutated(ret.remainingAccounts, kind),
                          !.pristine = FALSE, !.after = "other"]
    /\ preAccounts' = IF ret.array = "preAccounts"
                      THEN Mutated(ret.remainingAccounts, kind)
                      ELSE preAccounts
    /\ UNCHANGED <<instance, map, nextIndex, systemAccounts, calls, completed, seen, returnedIdx>>

(***************************************************************************)
(* SystemAccountMetaConfig and getLightSystemAccountMetasV2.               *)
(***************************************************************************)
SystemAccountMetaConfigNew(selfProgram) ==
    [cpiContext |-> undefined, selfProgram |-> selfProgram,
     solCompressionRecipient |-> undefined, solPoolPda |-> undefined]

SystemAccountMetaConfigNewWithCpiContext(selfProgram, cpiContext) ==
    [cpiContext |-> cpiContext, selfProgram |-> selfProgram,
     solCompressionRecipient |-> undefined, solPoolPda |-> undefined]

\* if (address) metas.push({ address, role: AccountRole.WRITABLE })
PushIf(metas, address) ==
    IF Truthy(address) THEN Append(metas, Meta(address, WRITABLE)) ELSE metas

\* a variant of the three conditional pushes with cpiContext first
PushOptionalCpiContextFirst(metas, config) ==
    PushIf(PushIf(PushIf(metas, config.cpiContext), config.solPoolPda),
           config.solCompressionRecipient)

\* the three conditional pushes: solPoolPda, solCompressionRecipient, cpiContext
PushOptional(metas, config) ==
    PushIf(PushIf(PushIf(metas, config.solPoolPda), config.solCompressionRecipient),
           config.cpiContext)

\* the list getLightSystemAccountMetasV2 builds once both authorities are resolved
LightSystemAccountMetas(config, lightSystemConfig, cpiSigner, resolvedAccountCompressionAuthority) ==
    LET accountCompressionProgram ==
            IF lightSystemConfig.accountCompressionProgram = undefined
            THEN DEFAULT_ACCOUNT_COMPRESSION_PROGRAM_ADDRESS
            ELSE lightSystemConfig.accountCompressionProgram
        registeredProgramPda ==
            IF lightSystemConfig.registeredProgramPda = undefined
            THEN DEFAULT_REGISTERED_PROGRAM_PDA_ADDRESS
            ELSE lightSystemConfig.registeredProgramPda
        metas == << Meta(lightSystemConfig.lightSystemProgram, READONLY),
                    Meta(cpiSigner, READONLY),
                    Meta(registeredProgramPda, READONLY),
                    Meta(resolvedAccountCompressionAuthority, READONLY),
                    Meta(accountCompressionProgram, READONLY),
                    Meta(DEFAULT_SYSTEM_PROGRAM_ADDRESS, READONLY) >>
    IN  PushOptional(metas, config)

FreeSlot == CHOOSE s \in Slots : calls[s] = FreeCall /\ \A t \in Slots : t < s => calls[t] /= FreeCall

Pending == [state |-> "pending"]
Fulfilled == [state |-> "fulfilled"]
Rejected(e) == [state |-> "rejected", reason |-> e]

\* the call runs to its first await: the derivation of the cpi signer is started
BeginCall(via, config, lightSystemConfig) ==
    /\ \E s \in Slots : calls[s] = FreeCall
    /\ calls' = [calls EXCEPT ![FreeSlot] =
                    [pc |-> "cpiSigner", via |-> via, config |-> config,
                     lightSystemConfig |-> lightSystemConfig, awaited |-> Pending,
                     cpiSigner |-> undefined, metas |-> <<>>, derives |-> 1]]

\* the promise of the derivation the call awaits settles: it fulfils, or rejects with e
DerivationSettles(s, outcome) ==
    /\ calls[s].pc \in {"cpiSigner", "authority"}
    /\ calls[s].awaited = Pending
    /\ calls' = [calls EXCEPT ![s].awaited = outcome]
    /\ UNCHANGED <<instance, map, nextIndex, preAccounts, systemAccounts, completed,
                   ret, seen, returnedIdx>>

\* a variant of addSystemAccountsV2 that pushes the light system program's meta as soon as
\* the cpi signer is known
CpiSignerResolvedEarlyPush(s) ==
    /\ calls[s].pc = "cpiSigner"
    /\ calls[s].awaited = Fulfilled
    /\ LET c == calls[s]
           cpiSigner == getProgramDerivedAddress(c.config.selfProgram, CPI_AUTHORITY_SEED)
       IN  IF c.lightSystemConfig.accountCompressionAuthority /= undefined
           THEN calls' = [calls EXCEPT ![s].pc = "metas", ![s].cpiSigner = cpiSigner,
                              ![s].metas = LightSystemAccountMetas(c.config, c.lightSystemConfig,
                                  cpiSigner, c.lightSystemConfig.accountCompressionAuthority)]
           ELSE calls' = [calls EXCEPT ![s].pc = "authority", ![s].cpiSigner = cpiSigner,
                              ![s].awaited = Pending, ![s].derives = c.derives + 1]
    /\ systemAccounts' =
          IF calls[s].via = "addSystemAccountsV2"
          THEN Append(systemAccounts, Meta(calls[s].lightSystemConfig.lightSystemProgram, READONLY))
          ELSE systemAccounts
    /\ UNCHANGED <<instance, map, nextIndex, preAccounts, completed, ret, seen, returnedIdx>>

\* const [cpiSigner] = await getProgramDerivedAddress(...) resumes; the function runs
\* to the await of deriveAccountCompressionAuthority, or to its return when the authority is given
CpiSignerResolved(s) ==
    /\ calls[s].pc = "cpiSigner"
    /\ calls[s].awaited = Fulfilled
    /\ LET c == calls[s]
           cpiSigner == getProgramDerivedAddress(c.config.selfProgram, CPI_AUTHORITY_SEED)
       IN  IF c.lightSystemConfig.accountCompressionAuthority /= undefined
           THEN calls' = [calls EXCEPT ![s].pc = "metas", ![s].cpiSigner = cpiSigner,
                              ![s].metas = LightSystemAccountMetas(c.config, c.lightSystemConfig,
                                  cpiSigner, c.lightSystemConfig.accountCompressionAuthority)]
           ELSE calls' = [calls EXCEPT ![s].pc = "authority", ![s].cpiSigner = cpiSigner,
                              ![s].awaited = Pending, ![s].derives = c.derives + 1]
    /\ UNCHANGED <<instance, map, nextIndex, preAccounts, systemAccounts, completed,
                   ret, seen, returnedIdx>>

\* await deriveAccountCompressionAuthority(lightSystemProgram) resumes; the function returns
AuthorityResolved(s) ==
    /\ calls[s].pc = "authority"
    /\ calls[s].awaited = Fulfilled
    /\ LET c == calls[s]
       IN  calls' = [calls EXCEPT ![s].pc = "metas",
                         ![s].metas = LightSystemAccountMetas(c.config, c.lightSystemConfig,
                             c.cpiSigner,
                             deriveAccountCompressionAuthority(c.lightSystemConfig.lightSystemProgram))]
    /\ UNCHANGED <<instance, map, nextIndex, preAccounts, systemAccounts, completed,
                   ret, seen, returnedIdx>>

\* a variant that catches the rejection and carries on without the derived address
DeriveRejectedFallback(s) ==
    /\ calls[s].pc \in {"cpiSigner", "authority"}
    /\ calls[s].awaited.state = "rejected"
    /\ LET c == calls[s]
       IN  calls' = [calls EXCEPT ![s].pc = "metas",
                         ![s].metas = LightSystemAccountMetas(c.config, c.lightSystemConfig,
                             c.cpiSigner, undefined)]
    /\ UNCHANGED <<instance, map, nextIndex, preAccounts, systemAccounts, completed,
                   ret, seen, returnedIdx>>

\* the awaited derivation has rejected: the await throws the reason, nothing catches it,
\* and the caller's promise rejects with it; addSystemAccountsV2's push is never reached
\* and newWithSystemAccountsV2 never returns its instance
DeriveRejected(s) ==
    /\ calls[s].pc \in {"cpiSigner", "authority"}
    /\ calls[s].awaited.state = "rejected"
    /\ calls' = [calls EXCEPT ![s] = FreeCall]
    /\ ret' = [op |-> "throw", via |-> calls[s].via, error |-> calls[s].awaited.reason,
               at |-> calls[s].pc, derives |-> calls[s].derives]
    /\ instance' = IF calls[s].via = "newWithSystemAccountsV2" THEN "unavailable" ELSE instance
    /\ UNCHANGED <<map, nextIndex, preAccounts, systemAccounts, completed, seen, returnedIdx>>

\* getLightSystemAccountMetasV2's promise resolves with the metas: a direct caller gets
\* them, addSystemAccountsV2 pushes them all with one push
MetasResolved(s) ==
    /\ calls[s].pc = "metas"
    /\ calls' = [calls EXCEPT ![s] = FreeCall]
    /\ IF calls[s].via = "getLightSystemAccountMetasV2"
       THEN /\ ret' = [op |-> "getLightSystemAccountMetasV2", config |-> calls[s].config,
                       lightSystemConfig |-> calls[s].lightSystemConfig,
                       metas |-> calls[s].metas, derives |-> calls[s].derives]
            /\ UNCHANGED <<instance, systemAccounts, completed>>
       ELSE /\ systemAccounts' = systemAccounts \o calls[s].metas
            /\ completed' = completed + 1
            /\ ret' = [op |-> calls[s].via]
            /\ instance' = "visible"
    /\ UNCHANGED <<map, nextIndex, preAccounts, seen, returnedIdx>>

getLightSystemAccountMetasV2(config, lightSystemConfig) ==
    /\ \A s \in Slots : calls[s] = FreeCall
    /\ BeginCall("getLightSystemAccountMetasV2", config, lightSystemConfig)
    /\ ret' = NoReturn
    /\ UNCHANGED <<instance, map, nextIndex, preAccounts, systemAccounts, completed,
                   seen, returnedIdx>>

addSystemAccountsV2(config, lightSystemConfig) ==
    /\ Quiescent
    /\ completed + Cardinality(InFlight) < MaxSystemCalls
    /\ BeginCall("addSystemAccountsV2", config, lightSystemConfig)
    /\ ret' = NoReturn
    /\ UNCHANGED <<instance, map, nextIndex, preAccounts, systemAccounts, completed,
                   seen, returnedIdx>>

newWithSystemAccountsV2(config, lightSystemConfig) ==
    /\ instance = "none"
    /\ instance' = "constructing"
    /\ BeginCall("newWithSystemAccountsV2", config, lightSystemConfig)
    /\ ret' = NoReturn
    /\ UNCHANGED <<map, nextIndex, preAccounts, systemAccounts, completed, seen, returnedIdx>>

(***************************************************************************)
(* The inputs the operations are called with.                              *)
(***************************************************************************)
LightSystemConfig(lightSystemProgram, accountCompressionAuthority) ==
    [accountCompressionAuthority |-> accountCompressionAuthority,
     accountCompressionProgram |-> undefined,
     lightSystemProgram |-> lightSystemProgram,
     registeredProgramPda |-> undefined]

\* the <<config, lightSystemConfig>> pairs a PackedAccounts is constructed with and given later
NewConfigs ==
    { <<SystemAccountMetaConfigNewWithCpiContext("SySTEM1e", "Q"), LightSystemConfig("SySTEM1e", "X")>> }

AddConfigs ==
    { <<SystemAccountMetaConfigNew("11111111"), LightSystemConfig("SySTEM1e", undefined)>> }

\* the addresses the insert operations are called with
ReadOnlyAddr == {"P", "SySTEM1e"}
InsertAddr == {"P", "Q"}
ConfigAddr == {"P"}
PreAddr == {"X"}
PreMetas == {Meta("P", READONLY)}

\* how an awaited derivation may settle
DerivationOutcomes == {Fulfilled} \cup {Rejected(e) : e \in DeriveErrors}

(***************************************************************************)
(* createLightSystemProgramSdk and resolveCommonAccounts.                  *)
(***************************************************************************)
CommonFields ==
    {"accountCompressionAuthority", "accountCompressionProgram", "noopProgram",
     "registeredProgramPda"}

Idle == [pc |-> "idle"]

\* inputDefaults?.field
DefaultOf(field) == IF sdk.hasDefaults THEN sdk.defaults[field] ELSE undefined

\* a variant that asks the SDK defaults before the input
ResolveOrDefaultsFirst(override, default, fallback) ==
    Coalesce(Coalesce(default, override), fallback)

\* override ?? default ?? fallback
ResolveOr(override, default, fallback) == Coalesce(Coalesce(override, default), fallback)

\* whether resolveCommonAccounts reaches await deriveAccountCompressionAuthority(programAddress)
NeedsDerivation(input) ==
    Coalesce(input.accountCompressionAuthority, DefaultOf("accountCompressionAuthority"))
        = undefined

\* the object resolveCommonAccounts returns; derived is read only when the derivation ran
CommonAccounts(input, derived) ==
    [accountCompressionAuthority |->
        ResolveOr(input.accountCompressionAuthority,
                  DefaultOf("accountCompressionAuthority"), derived),
     accountCompressionProgram |->
        ResolveOr(input.accountCompressionProgram, DefaultOf("accountCompressionProgram"),
                  DEFAULT_ACCOUNT_COMPRESSION_PROGRAM_ADDRESS),
     noopProgram |->
        ResolveOr(input.noopProgram, DefaultOf("noopProgram"), DEFAULT_NOOP_PROGRAM_ADDRESS),
     registeredProgramPda |->
        ResolveOr(input.registeredProgramPda, DefaultOf("registeredProgramPda"),
                  DEFAULT_REGISTERED_PROGRAM_PDA_ADDRESS)]

\* { ...input, ...commonAccounts, systemProgram: input.systemProgram ?? DEFAULT_SYSTEM_PROGRAM_ADDRESS }
InstructionInput(input, commonAccounts) ==
    [f \in DOMAIN input |->
        IF f \in DOMAIN commonAccounts THEN commonAccounts[f]
        ELSE IF f = "systemProgram"
             THEN Coalesce(input.systemProgram, DEFAULT_SYSTEM_PROGRAM_ADDRESS)
             ELSE input[f]]

\* a build*Instruction call runs resolveCommonAccounts to its await, or through it
BuildBegin(kind, input) ==
    /\ build.pc \in {"idle", "done", "threw"}
    /\ IF NeedsDerivation(input)
       THEN build' = [pc |-> "authority", kind |-> kind, input |-> input,
                      awaited |-> Pending, derives |-> 1]
       ELSE build' = [pc |-> "resolved", kind |-> kind, input |-> input, derives |-> 0,
                      commonAccounts |-> CommonAccounts(input, undefined)]
    /\ UNCHANGED sdk

buildInvokeInstruction(input) == BuildBegin("invoke", input)

buildInvokeCpiInstruction(input) == BuildBegin("invokeCpi", input)

buildInvokeCpiWithReadOnlyInstruction(input) == BuildBegin("invokeCpiWithReadOnly", input)

\* the promise of the awaited derivation settles
BuildDerivationSettles(outcome) ==
    /\ build.pc = "authority"
    /\ build.awaited = Pending
    /\ build' = [build EXCEPT !.awaited = outcome]
    /\ UNCHANGED sdk

\* await deriveAccountCompressionAuthority(programAddress) resumes
BuildAuthorityResolved ==
    /\ build.pc = "authority"
    /\ build.awaited = Fulfilled
    /\ build' = [pc |-> "resolved", kind |-> build.kind, input |-> build.input,
                 derives |-> build.derives,
                 commonAccounts |->
                     CommonAccounts(build.input,
                                    deriveAccountCompressionAuthority(sdk.programAddress))]
    /\ UNCHANGED sdk

\* the awaited derivation has rejected: the build call rejects with its reason
BuildDeriveRejected ==
    /\ build.pc = "authority"
    /\ build.awaited.state = "rejected"
    /\ build' = [pc |-> "threw", kind |-> build.kind, input |-> build.input,
                 derives |-> build.derives, error |-> build.awaited.reason]
    /\ UNCHANGED sdk

\* an optional account of a generated builder that was not given: the program address, read-only
OptionalAccount(address, role, programAddress) ==
    IF address = undefined THEN Meta(programAddress, READONLY) ELSE Meta(address, role)

\* the accounts every generated invoke builder starts with
InvokeHeadAccounts(input) ==
    <<Meta("feePayer", WRITABLE_SIGNER), Meta("authority", READONLY_SIGNER),
      Meta(input.registeredProgramPda, READONLY), Meta(input.noopProgram, READONLY),
      Meta(input.accountCompressionAuthority, READONLY),
      Meta(input.accountCompressionProgram, READONLY)>>

\* the optional accounts and the system program the generated invoke builders end with
InvokeTailAccounts(input, programAddress) ==
    <<OptionalAccount(undefined, WRITABLE, programAddress),
      OptionalAccount(undefined, WRITABLE, programAddress),
      Meta(input.systemProgram, READONLY)>>

\* getInvokeInstruction, getInvokeCpiInstruction and getInvokeCpiWithReadOnlyInstruction:
\* the instruction with the fixed accounts of its kind; remainingAccounts is not read
GeneratedInstruction(kind, input, programAddress) ==
    [programAddress |-> programAddress,
     accounts |->
        IF kind = "invoke"
        THEN InvokeHeadAccounts(input) \o InvokeTailAccounts(input, programAddress)
        ELSE InvokeHeadAccounts(input) \o <<Meta("invokingProgram", READONLY)>>
             \o InvokeTailAccounts(input, programAddress)
             \o <<OptionalAccount(undefined, WRITABLE, programAddress)>>]

\* remainingAccounts?.length is falsy
NoRemainingAccounts(remainingAccounts) ==
    ~remainingAccounts.given \/ Len(remainingAccounts.list) = 0

\* a variant that puts the remaining accounts before the instruction's own
withRemainingAccountsFirst(instruction, remainingAccounts) ==
    IF NoRemainingAccounts(remainingAccounts) THEN instruction
    ELSE [instruction EXCEPT !.accounts = remainingAccounts.list \o instruction.accounts]

\* withRemainingAccounts: the instruction itself, or a copy with the remaining accounts appended
withRemainingAccounts(instruction, remainingAccounts) ==
    IF NoRemainingAccounts(remainingAccounts) THEN instruction
    ELSE [instruction EXCEPT !.accounts = instruction.accounts \o remainingAccounts.list]

\* await resolveCommonAccounts(...) resumes: the generated builder is called with the input put
\* together, and withRemainingAccounts makes the instruction returned
InstructionBuilt ==
    /\ build.pc = "resolved"
    /\ LET instructionInput == InstructionInput(build.input, build.commonAccounts)
           instruction == GeneratedInstruction(build.kind, instructionInput, sdk.programAddress)
       IN build' = [pc |-> "done", kind |-> build.kind, input |-> build.input,
                    derives |-> build.derives, commonAccounts |-> build.commonAccounts,
                    instructionInput |-> instructionInput,
                    instruction |->
                        withRemainingAccounts(instruction, build.input.remainingAccounts)]
    /\ UNCHANGED sdk

\* the SDK objects createLightSystemProgramSdk is asked for
OptionalOf(address) == {undefined, address}

SdkDefaults ==
    [accountCompressionAuthority : OptionalOf("sdkAuthority"),
     accountCompressionProgram : OptionalOf("sdkCompression"),
     noopProgram : OptionalOf("sdkNoop"),
     registeredProgramPda : OptionalOf("sdkRegistered")]

NoDefaults ==
    [accountCompressionAuthority |-> undefined, accountCompressionProgram |-> undefined,
     noopProgram |-> undefined, registeredProgramPda |-> undefined]

Sdks ==
    {[hasDefaults |-> FALSE, defaults |-> NoDefaults, programAddress |-> "SySTEM1e"]}
    \cup [hasDefaults : {TRUE}, defaults : SdkDefaults, programAddress : {"SySTEM1e"}]

\* the remainingAccounts of a build input: absent, or a list of account metas
RemainingMetas == {Meta("feePayer", READONLY), Meta("R", WRITABLE)}

RemainingInputs ==
    {[given |-> FALSE, list |-> <<>>]}
    \cup {[given |-> TRUE, list |-> list] :
             list \in UNION {[1..n -> RemainingMetas] : n \in 0..MaxRemaining}}

\* the inputs the build*Instruction operations are called with: every combination of the
\* optional accounts without remaining accounts, and every remainingAccounts with the
\* authority and the system program given or not
BuildInputs ==
    {input \in [accountCompressionAuthority : OptionalOf("callAuthority"),
                accountCompressionProgram : OptionalOf("callCompression"),
                noopProgram : OptionalOf("callNoop"),
                registeredProgramPda : OptionalOf("callRegistered"),
                systemProgram : OptionalOf("callSystem"),
                remainingAccounts : RemainingInputs] :
        input.remainingAccounts.given =>
            /\ input.accountCompressionProgram = undefined
            /\ input.noopProgram = undefined
            /\ input.registeredProgramPda = undefined}

\* the inputs getLightSystemAccountMetasV2 is called with
ResolverConfigs ==
    [cpiContext : OptionalOf("cpiContext"), selfProgram : {"11111111", "SySTEM1e"},
     solCompressionRecipient : OptionalOf("recipient"), solPoolPda : OptionalOf("solPool")]

ResolverLightSystemConfigs ==
    [accountCompressionAuthority : OptionalOf("authority"),
     accountCompressionProgram : OptionalOf("compression"),
     lightSystemProgram : {"SySTEM1e", "11111111"},
     registeredProgramPda : OptionalOf("registered")]

(***************************************************************************)
(* buildAndSignTransaction and sendAndConfirmInstructions.                 *)
(***************************************************************************)
FulfilledWith(value) == [state |-> "fulfilled", value |-> value]

\* BlockhashLifetimeConstraint
Lifetime(blockhash) == [blockhash |-> blockhash, lastValidBlockHeight |-> 1]

\* what rpc.getLatestBlockhash().send() may resolve to: the constraint, or { value: constraint }
RpcResponses(rpc) ==
    {Lifetime("blockhash of " \o rpc), [value |-> Lifetime("blockhash of " \o rpc)]}

\* 'value' in response ? response.value : response
normalizeBlockhashLifetimeConstraint(response) ==
    IF "value" \in DOMAIN response THEN response.value ELSE response

\* rpcClient?.rpc
RpcOf(rpcClient) == IF rpcClient = undefined THEN undefined ELSE rpcClient \o ".rpc"

\* buildInput.rpc ?? rpcClient?.rpc
BuildRpc(input) == Coalesce(input.rpc, RpcOf(input.rpcClient))

\* the transaction signTransactionMessageWithSigners resolves to: the message, and the fee
\* payer's signature over it
SignedTransaction(input, lifetime) ==
    [feePayer |-> input.feePayer, instructions |-> input.instructions, lifetime |-> lifetime,
     signature |-> "signature of " \o input.feePayer \o " over " \o input.instructions
                   \o " at " \o lifetime.blockhash]

getSignatureFromTransaction(transaction) == transaction.signature

\* a variant that asks the rpcClient before the injected sender
SendAndConfirmRpcClientFirst(input) ==
    IF Truthy(input.rpcClient) THEN "factory(" \o input.rpcClient \o ")"
    ELSE input.sendAndConfirmTransaction

\* sendAndConfirmTransaction ?? (rpcClient ? sendAndConfirmTransactionFactory({...}) : undefined)
SendAndConfirm(input) ==
    Coalesce(input.sendAndConfirmTransaction,
             IF Truthy(input.rpcClient) THEN "factory(" \o input.rpcClient \o ")"
             ELSE undefined)

\* buildAndSignTransaction runs to its first await, or throws before it
BuildAndSignBegin(via, input, rpc) ==
    /\ send.pc \in {"idle", "returned", "threw"}
    /\ IF "latestBlockhash" \in DOMAIN input
       THEN send' = [pc |-> "sign", via |-> via, input |-> input, rpc |-> rpc,
                     lifetime |-> input.latestBlockhash, awaited |-> Pending, sent |-> <<>>]
       ELSE IF Truthy(rpc)
       THEN send' = [pc |-> "getLatestBlockhash", via |-> via, input |-> input, rpc |-> rpc,
                     awaited |-> Pending, sent |-> <<>>]
       ELSE send' = [pc |-> "threw", via |-> via, input |-> input, sent |-> <<>>,
                     error |-> "latestBlockhash is required when rpc is not provided."]

buildAndSignTransaction(input) ==
    BuildAndSignBegin("buildAndSignTransaction", input, input.rpc)

sendAndConfirmInstructions(input) ==
    BuildAndSignBegin("sendAndConfirmInstructions", input, BuildRpc(input))

\* the promise the call awaits settles; the sender's promise is the one of its invocation
SendSettles(outcome) ==
    /\ send.pc \in {"getLatestBlockhash", "sign", "sendAndConfirm"}
    /\ send.awaited = Pending
    /\ send' = [send EXCEPT !.awaited = outcome,
                            !.sent = IF send.pc = "sendAndConfirm"
                                     THEN [send.sent EXCEPT ![Len(send.sent)].promise = outcome]
                                     ELSE send.sent]

\* an awaited promise has rejected: the call rejects with its reason
SendRejected ==
    /\ send.pc \in {"getLatestBlockhash", "sign", "sendAndConfirm"}
    /\ send.awaited.state = "rejected"
    /\ send' = [pc |-> "threw", via |-> send.via, input |-> send.input, sent |-> send.sent,
                error |-> send.awaited.reason]

\* await rpc.getLatestBlockhash().send() resumes: the message is built and its signing started
LatestBlockhashResolved ==
    /\ send.pc = "getLatestBlockhash"
    /\ send.awaited.state = "fulfilled"
    /\ send' = [pc |-> "sign", via |-> send.via, input |-> send.input, rpc |-> send.rpc,
                lifetime |-> normalizeBlockhashLifetimeConstraint(send.awaited.value),
                awaited |-> Pending, sent |-> send.sent]

\* signTransactionMessageWithSigners has resolved: buildAndSignTransaction returns, and
\* sendAndConfirmInstructions goes on to choose its sender and to invoke it, or throws
Signed ==
    /\ send.pc = "sign"
    /\ send.awaited.state = "fulfilled"
    /\ LET signedTransaction == send.awaited.value
           sendAndConfirm == SendAndConfirm(send.input)
       IN IF send.via = "buildAndSignTransaction"
          THEN send' = [pc |-> "returned", via |-> send.via, input |-> send.input,
                        sent |-> send.sent, signedTransaction |-> signedTransaction]
          ELSE IF ~Truthy(sendAndConfirm)
          THEN send' = [pc |-> "threw", via |-> send.via, input |-> send.input,
                        sent |-> send.sent, signedTransaction |-> signedTransaction,
                        error |-> "sendAndConfirmTransaction or rpcClient is required."]
          ELSE send' = [pc |-> "sendAndConfirm", via |-> send.via, input |-> send.input,
                        signedTransaction |-> signedTransaction, awaited |-> Pending,
                        sent |-> Append(send.sent,
                                        [sender |-> sendAndConfirm,
                                         transaction |-> signedTransaction,
                                         commitment |-> Coalesce(send.input.commitment,
                                                                 "confirmed"),
                                         promise |-> Pending])]

\* await sendAndConfirm(signedTransaction, { commitment }) resumes: the signature is returned
Confirmed ==
    /\ send.pc = "sendAndConfirm"
    /\ send.awaited.state = "fulfilled"
    /\ send' = [pc |-> "returned", via |-> send.via, input |-> send.input,
                sent |-> send.sent, signedTransaction |-> send.signedTransaction,
                signature |-> getSignatureFromTransaction(send.signedTransaction)]

\* how the promise a call awaits may settle
SendOutcomes ==
    IF send.pc = "getLatestBlockhash"
    THEN {FulfilledWith(r) : r \in RpcResponses(send.rpc)} \cup {Rejected("rpc failed")}
    ELSE IF send.pc = "sign"
    THEN {FulfilledWith(SignedTransaction(send.input, send.lifetime)),
          Rejected("signing failed")}
    ELSE {FulfilledWith(undefined), Rejected("transaction failed")}

\* the inputs buildAndSignTransaction and sendAndConfirmInstructions are called with
BuildAndSignInputs ==
    LET given == [feePayer : {"feePayer"}, instructions : {"memo"}, rpc : OptionalOf("rpc")]
    IN given \cup {[latestBlockhash |-> Lifetime("blockhash given")] @@ i : i \in given}

SendInputs ==
    {i @@ o : i \in BuildAndSignInputs,
              o \in [commitment : {undefined, "processed", "finalized"},
                      rpcClient : OptionalOf("rpcClient"),
                      sendAndConfirmTransaction : OptionalOf("injected")]}

PackedInit ==
    /\ instance = "none"
    /\ map = <<>>
    /\ nextIndex = 0
    /\ preAccounts = <<>>
    /\ systemAccounts = <<>>
    /\ calls = [s \in Slots |-> FreeCall]
    /\ completed = 0
    /\ ret = NoReturn
    /\ seen = <<>>
    /\ returnedIdx = {}

Init ==
    /\ PackedInit
    /\ sdk = [hasDefaults |-> FALSE, defaults |-> NoDefaults, programAddress |-> "SySTEM1e"]
    /\ build = Idle
    /\ send = Idle
    /\ caller = "sequential"

InitSdk ==
    /\ PackedInit
    /\ sdk \in Sdks
    /\ build = Idle
    /\ send = Idle
    /\ caller = "sequential"

Next ==
    \/ New /\ UNCHANGED <<sdkVars, sendVars, callerVars>>
    \/ \E c \in NewConfigs : newWithSystemAccountsV2(c[1], c[2]) /\ UNCHANGED <<sdkVars, sendVars, callerVars>>
    \/ \E c \in AddConfigs : addSystemAccountsV2(c[1], c[2]) /\ UNCHANGED <<sdkVars, sendVars, callerVars>>
    \/ \E s \in Slots, outcome \in DerivationOutcomes : DerivationSettles(s, outcome) /\ UNCHANGED <<sdkVars, sendVars, callerVars>>
    \/ \E s \in Slots : CpiSignerResolved(s) /\ UNCHANGED <<sdkVars, sendVars, callerVars>>
    \/ \E s \in Slots : AuthorityResolved(s) /\ UNCHANGED <<sdkVars, sendVars, callerVars>>
    \/ \E s \in Slots : DeriveRejected(s) /\ UNCHANGED <<sdkVars, sendVars, callerVars>>
    \/ \E s \in Slots : MetasResolved(s) /\ UNCHANGED <<sdkVars, sendVars, callerVars>>
    \/ \E m \in PreMetas : addPreAccountsMeta(m) /\ UNCHANGED <<sdkVars, sendVars, callerVars>>
    \/ \E a \in PreAddr : addPreAccountsSigner(a) /\ UNCHANGED <<sdkVars, sendVars, callerVars>>
    \/ \E a \in PreAddr : addPreAccountsSignerMut(a) /\ UNCHANGED <<sdkVars, sendVars, callerVars>>
    \/ \E a \in InsertAddr : insertOrGet(a) /\ UNCHANGED <<sdkVars, sendVars, callerVars>>
    \/ \E a \in ReadOnlyAddr : insertOrGetReadOnly(a) /\ UNCHANGED <<sdkVars, sendVars, callerVars>>
    \/ \E a \in ConfigAddr, isSigner \in BOOLEAN, isWritable \in BOOLEAN :
          insertOrGetConfig(a, isSigner, isWritable) /\ UNCHANGED <<sdkVars, sendVars, callerVars>>
    \/ toAccountMetas /\ UNCHANGED <<sdkVars, sendVars, callerVars>>
    \/ \E kind \in {"pop", "push"} : MutateReturned(kind) /\ UNCHANGED <<sdkVars, sendVars, callerVars>>

Spec == Init /\ [][Next]_vars

\* getLightSystemAccountMetasV2 called on its own
NextResolver ==
    \/ \E config \in ResolverConfigs, lightSystemConfig \in ResolverLightSystemConfigs :
          getLightSystemAccountMetasV2(config, lightSystemConfig) /\ UNCHANGED <<sdkVars, sendVars, callerVars>>
    \/ \E s \in Slots, outcome \in DerivationOutcomes : DerivationSettles(s, outcome) /\ UNCHANGED <<sdkVars, sendVars, callerVars>>
    \/ \E s \in Slots : CpiSignerResolved(s) /\ UNCHANGED <<sdkVars, sendVars, callerVars>>
    \/ \E s \in Slots : AuthorityResolved(s) /\ UNCHANGED <<sdkVars, sendVars, callerVars>>
    \/ \E s \in Slots : DeriveRejected(s) /\ UNCHANGED <<sdkVars, sendVars, callerVars>>
    \/ \E s \in Slots : MetasResolved(s) /\ UNCHANGED <<sdkVars, sendVars, callerVars>>

SpecResolver == Init /\ [][NextResolver]_vars

\* the instruction builders of an SDK object
NextSdk ==
    \/ \E input \in BuildInputs : buildInvokeInstruction(input) /\ UNCHANGED <<packedVars, sendVars, callerVars>>
    \/ \E input \in BuildInputs : buildInvokeCpiInstruction(input) /\ UNCHANGED <<packedVars, sendVars, callerVars>>
    \/ \E input \in BuildInputs : buildInvokeCpiWithReadOnlyInstruction(input) /\ UNCHANGED <<packedVars, sendVars, callerVars>>
    \/ \E outcome \in DerivationOutcomes : BuildDerivationSettles(outcome) /\ UNCHANGED <<packedVars, sendVars, callerVars>>
    \/ BuildAuthorityResolved /\ UNCHANGED <<packedVars, sendVars, callerVars>>
    \/ BuildDeriveRejected /\ UNCHANGED <<packedVars, sendVars, callerVars>>
    \/ InstructionBuilt /\ UNCHANGED <<packedVars, sendVars, callerVars>>

SpecSdk == InitSdk /\ [][NextSdk]_vars

\* a caller that does not await its addSystemAccountsV2 calls before calling on
InitConcurrent ==
    /\ PackedInit
    /\ sdk = [hasDefaults |-> FALSE, defaults |-> NoDefaults, programAddress |-> "SySTEM1e"]
    /\ build = Idle
    /\ send = Idle
    /\ caller = "concurrent"

ConcurrentConfigs == AddConfigs \cup NewConfigs

NextConcurrent ==
    \/ New /\ UNCHANGED <<sdkVars, sendVars, callerVars>>
    \/ \E c \in ConcurrentConfigs :
          addSystemAccountsV2(c[1], c[2]) /\ UNCHANGED <<sdkVars, sendVars, callerVars>>
    \/ \E s \in Slots, outcome \in DerivationOutcomes :
          DerivationSettles(s, outcome) /\ UNCHANGED <<sdkVars, sendVars, callerVars>>
    \/ \E s \in Slots : CpiSignerResolved(s) /\ UNCHANGED <<sdkVars, sendVars, callerVars>>
    \/ \E s \in Slots : AuthorityResolved(s) /\ UNCHANGED <<sdkVars, sendVars, callerVars>>
    \/ \E s \in Slots : DeriveRejected(s) /\ UNCHANGED <<sdkVars, sendVars, callerVars>>
    \/ \E s \in Slots : MetasResolved(s) /\ UNCHANGED <<sdkVars, sendVars, callerVars>>
    \/ \E m \in PreMetas : addPreAccountsMeta(m) /\ UNCHANGED <<sdkVars, sendVars, callerVars>>
    \/ \E a \in PreAddr : addPreAccountsSigner(a) /\ UNCHANGED <<sdkVars, sendVars, callerVars>>
    \/ \E a \in InsertAddr : insertOrGet(a) /\ UNCHANGED <<sdkVars, sendVars, callerVars>>
    \/ toAccountMetas /\ UNCHANGED <<sdkVars, sendVars, callerVars>>

SpecConcurrent == InitConcurrent /\ [][NextConcurrent]_vars

\* the transaction helpers
NextSend ==
    \/ \E input \in BuildAndSignInputs :
          buildAndSignTransaction(input) /\ UNCHANGED <<packedVars, sdkVars, callerVars>>
    \/ \E input \in SendInputs :
          sendAndConfirmInstructions(input) /\ UNCHANGED <<packedVars, sdkVars, callerVars>>
    \/ \E outcome \in SendOutcomes : SendSettles(outcome) /\ UNCHANGED <<packedVars, sdkVars, callerVars>>
    \/ SendRejected /\ UNCHANGED <<packedVars, sdkVars, callerVars>>
    \/ LatestBlockhashResolved /\ UNCHANGED <<packedVars, sdkVars, callerVars>>
    \/ Signed /\ UNCHANGED <<packedVars, sdkVars, callerVars>>
    \/ Confirmed /\ UNCHANGED <<packedVars, sdkVars, callerVars>>

SpecSend == Init /\ [][NextSend]_vars

(***************************************************************************)
(* The claims about PackedAccounts, checked under Spec.                    *)
(***************************************************************************)
Frame == UNCHANGED <<map, nextIndex, preAccounts, systemAccounts>>

\* C1: an insert call on the address of the insert call just before it returns the
\* same index as that call, whatever its access flags, and leaves the number of
\* entries and nextIndex as they were.
ClaimC1 ==
    [][ (ret.op = "insert" /\ ret'.op = "insert" /\ ret'.repeat /\ ret'.address = ret.address)
        => /\ ret'.index = ret.index
           /\ Cardinality(DOMAIN map') = Cardinality(DOMAIN map)
           /\ nextIndex' = nextIndex ]_vars

\* an address was inserted second, and then again with other flags
WitnessC1 ==
    /\ ret.op = "insert"
    /\ ret.repeat
    /\ ret.index = 1
    /\ ret.requested /= map[ret.address][2].role

\* C2: the k-th distinct address in first-seen order has index k-1; the indices
\* handed out are exactly 0..N-1 for N distinct addresses, no index belongs to two
\* addresses, and nextIndex is the number of entries.
ClaimC2 ==
    /\ nextIndex = Cardinality(DOMAIN map)
    /\ Len(seen) = Cardinality(DOMAIN map)
    /\ \A k \in 1..Len(seen) :
          /\ seen[k].address \in DOMAIN map
          /\ map[seen[k].address][1] = k - 1
          /\ <<seen[k].address, k - 1>> \in returnedIdx
    /\ {p[2] : p \in returnedIdx} = 0..(Len(seen) - 1)
    /\ \A p, q \in returnedIdx : (p[2] = q[2]) <=> (p[1] = q[1])

\* three distinct addresses were inserted, and the first of them once more at the end
WitnessC2 ==
    /\ Len(seen) = 3
    /\ ret.op = "insert"
    /\ ret.address = seen[1].address
    /\ ret.index = 0

\* C3: the role of an entry is the role of the first insertion of its address, in
\* the table and in the list toAccountMetas returns, whatever was requested later.
ClaimC3 ==
    LET listed == ToAccountMetasResult
    IN  /\ Len(listed.remainingAccounts) = listed.packedStart + Len(seen)
        /\ \A k \in 1..Len(seen) :
              /\ seen[k].address \in DOMAIN map
              /\ map[seen[k].address][2] = seen[k]
              /\ listed.remainingAccounts[listed.packedStart + k] = seen[k]

\* a read-only entry was asked for again as writable, and is still listed read-only
WitnessC3 ==
    /\ ret.op = "insert"
    /\ ret.requested = WRITABLE
    /\ map[ret.address][2].role = READONLY
    /\ ToAccountMetasResult.remainingAccounts[
           ToAccountMetasResult.packedStart + ret.index + 1].role = READONLY

\* C4: toAccountMetas returns systemStart = the number of pre-accounts and
\* packedStart = systemStart + the number of system accounts, with
\* 0 <= systemStart <= packedStart <= the length of remainingAccounts.
ClaimC4 ==
    ret.op = "toAccountMetas" =>
        /\ ret.returned.systemStart = Len(preAccounts)
        /\ ret.returned.packedStart = ret.returned.systemStart + Len(systemAccounts)
        /\ 0 <= ret.returned.systemStart
        /\ ret.returned.systemStart <= ret.returned.packedStart
        /\ ret.returned.packedStart <= Len(ret.returned.remainingAccounts)

\* the offsets of a list with two pre-accounts, two blocks of system accounts and a packed entry
WitnessC4 ==
    /\ ret.op = "toAccountMetas"
    /\ ret.returned.systemStart = 2
    /\ ret.returned.packedStart > 2 + 6
    /\ Len(ret.returned.remainingAccounts) > ret.returned.packedStart

\* C5: toAccountMetas returns the pre-accounts, then the system accounts, then the
\* packed entries by ascending index: the list is packedStart plus the number of
\* distinct packed addresses long, and every index i an insert call has returned
\* for an address a names position packedStart + i, which holds a.
ClaimC5 ==
    ret.op = "toAccountMetas" =>
        LET list == ret.returned.remainingAccounts
            packedStart == ret.returned.packedStart
            n == Len(preAccounts)
            m == Len(systemAccounts)
        IN  /\ Len(list) = packedStart + Cardinality({p[1] : p \in returnedIdx})
            /\ Len(list) = n + m + Cardinality(DOMAIN map)
            /\ \A i \in 1..n : list[i] = preAccounts[i]
            /\ \A i \in 1..m : list[n + i] = systemAccounts[i]
            /\ \A i \in 1..Cardinality(DOMAIN map) :
                  /\ list[n + m + i].address \in DOMAIN map
                  /\ map[list[n + m + i].address] = <<i - 1, list[n + m + i]>>
            /\ \A p \in returnedIdx : list[packedStart + p[2] + 1].address = p[1]

\* two pre-accounts, system accounts and three packed entries are listed
WitnessC5 ==
    /\ ret.op = "toAccountMetas"
    /\ Len(preAccounts) = 2
    /\ Len(systemAccounts) >= 6
    /\ Cardinality(returnedIdx) = 3
    /\ ret.returned.remainingAccounts[ret.returned.packedStart + 3].address = "Q"

\* C6: a toAccountMetas call changes nothing of the PackedAccounts; after an earlier
\* call with no operation on the PackedAccounts in between it returns what that call
\* returned, also when the caller has changed the list it was returned, and that
\* change of the returned list changes nothing of the PackedAccounts either.
ClaimC6 ==
    [][ /\ (ret'.op = "toAccountMetas" /\ ret'.pristine)
           => /\ Frame
              /\ ret.op = "toAccountMetas" => ret'.returned = ret.returned
        /\ (ret.op = "toAccountMetas" /\ ret'.op = "toAccountMetas" /\ ~ret'.pristine)
           => /\ Frame
              /\ ret'.returned = ret.returned ]_vars

\* toAccountMetas was called again after the caller changed the list of an earlier call
WitnessC6 ==
    /\ ret.op = "toAccountMetas"
    /\ ret.pristine
    /\ ret.after = "mutation"
    /\ preAccounts /= <<>>
    /\ systemAccounts /= <<>>
    /\ DOMAIN map /= {}

\* C8 as stated: the list toAccountMetas returns holds each address at most once.
OriginalC8 ==
    ret.op = "toAccountMetas" =>
        LET list == ret.returned.remainingAccounts
        IN  \A i, j \in 1..Len(list) : i /= j => list[i].address /= list[j].address

\* C8, amended: only the packed region is deduplicated: from packedStart on, the
\* list toAccountMetas returns holds each address at most once.
ClaimC8 ==
    ret.op = "toAccountMetas" =>
        LET list == ret.returned.remainingAccounts
        IN  \A i, j \in (ret.returned.packedStart + 1)..Len(list) :
               i /= j => list[i].address /= list[j].address

\* an address of the system accounts was inserted as well, and is listed in both regions
WitnessC8 ==
    /\ ret.op = "toAccountMetas"
    /\ Cardinality(DOMAIN map) >= 2
    /\ LET list == ret.returned.remainingAccounts
       IN  \E i \in (ret.returned.systemStart + 1)..ret.returned.packedStart :
              \E j \in (ret.returned.packedStart + 1)..Len(list) :
                 list[i].address = list[j].address

\* C9: while a call awaits a derivation nothing of the PackedAccounts changes, and
\* when the derivation has rejected the call ends there: its caller is thrown the
\* derivation's own error, no further derivation is started, nothing is pushed,
\* and newWithSystemAccountsV2 hands out no instance.
ClaimC9 ==
    [][ /\ \A s \in Slots :
              calls[s].pc \in {"cpiSigner", "authority"} =>
                 /\ Frame
                 /\ completed' = completed
                 /\ (calls[s].awaited.state = "rejected" /\ calls'[s] /= calls[s]) =>
                       /\ calls'[s] = FreeCall
                       /\ ret'.op = "throw"
                       /\ ret'.via = calls[s].via
                       /\ ret'.error = calls[s].awaited.reason
                       /\ ret'.derives = calls[s].derives
                       /\ instance' = IF calls[s].via = "newWithSystemAccountsV2"
                                      THEN "unavailable" ELSE instance
        /\ instance = "unavailable" => instance' = "unavailable" ]_vars

\* the second derivation of an addSystemAccountsV2 call on a filled PackedAccounts rejected
WitnessC9 ==
    /\ ret.op = "throw"
    /\ ret.via = "addSystemAccountsV2"
    /\ ret.at = "authority"
    /\ ret.error \in DeriveErrors
    /\ systemAccounts /= <<>>
    /\ preAccounts /= <<>>
    /\ DOMAIN map /= {}

\* newWithSystemAccountsV2 failed and handed out no instance
WitnessC9New ==
    /\ ret.op = "throw"
    /\ ret.via = "newWithSystemAccountsV2"
    /\ instance = "unavailable"

(***************************************************************************)
(* The claim about getLightSystemAccountMetasV2, checked under             *)
(* SpecResolver.                                                           *)
(***************************************************************************)
\* C7: getLightSystemAccountMetasV2 returns the six read-only accounts
\* [lightSystemProgram, derive(selfProgram), registeredProgramPda or its default,
\* the authority given or derive(lightSystemProgram), accountCompressionProgram or
\* its default, the system program], then solPoolPda, solCompressionRecipient and
\* cpiContext, writable, each only if configured.
ClaimC7 ==
    ret.op = "getLightSystemAccountMetasV2" =>
        LET config == ret.config
            given == ret.lightSystemConfig
            ro(address) == [address |-> address, role |-> READONLY]
            opt(address) == IF address = undefined
                            THEN <<>>
                            ELSE <<[address |-> address, role |-> WRITABLE]>>
            fixed ==
                << ro(given.lightSystemProgram),
                   ro(getProgramDerivedAddress(config.selfProgram, CPI_AUTHORITY_SEED)),
                   ro(IF given.registeredProgramPda = undefined
                      THEN DEFAULT_REGISTERED_PROGRAM_PDA_ADDRESS
                      ELSE given.registeredProgramPda),
                   ro(IF given.accountCompressionAuthority = undefined
                      THEN getProgramDerivedAddress(given.lightSystemProgram, CPI_AUTHORITY_SEED)
                      ELSE given.accountCompressionAuthority),
                   ro(IF given.accountCompressionProgram = undefined
                      THEN DEFAULT_ACCOUNT_COMPRESSION_PROGRAM_ADDRESS
                      ELSE given.accountCompressionProgram),
                   ro(DEFAULT_SYSTEM_PROGRAM_ADDRESS) >>
            configured == Cardinality({f \in {"solPoolPda", "solCompressionRecipient", "cpiContext"} :
                                          config[f] /= undefined})
        IN  /\ ret.metas = fixed \o opt(config.solPoolPda) \o opt(config.solCompressionRecipient)
                                 \o opt(config.cpiContext)
            /\ Len(ret.metas) = 6 + configured
            /\ SubSeq(ret.metas, 1, 6) = fixed

\* a list with defaults in the fixed part and all three optional accounts
WitnessC7 ==
    /\ ret.op = "getLightSystemAccountMetasV2"
    /\ Len(ret.metas) = 9
    /\ ret.lightSystemConfig.accountCompressionAuthority = undefined
    /\ ret.lightSystemConfig.registeredProgramPda = undefined
    /\ ret.lightSystemConfig.accountCompressionProgram /= undefined
    /\ ret.metas[7].address = "solPool"
    /\ ret.metas[9].address = "cpiContext"

(***************************************************************************)
(* The claim about resolveCommonAccounts, checked under SpecSdk.           *)
(***************************************************************************)
\* C10: each common account handed to the instruction is the per-call input if
\* given, else the SDK default if given, else the constant (for the authority: the
\* address derived from the SDK's programAddress), and a derivation is started
\* only when neither the input nor the SDK defaults give the authority.
ClaimC10 ==
    LET constant(f) ==
            CASE f = "accountCompressionAuthority" ->
                     getProgramDerivedAddress(sdk.programAddress, CPI_AUTHORITY_SEED)
              [] f = "accountCompressionProgram" -> DEFAULT_ACCOUNT_COMPRESSION_PROGRAM_ADDRESS
              [] f = "noopProgram" -> DEFAULT_NOOP_PROGRAM_ADDRESS
              [] f = "registeredProgramPda" -> DEFAULT_REGISTERED_PROGRAM_PDA_ADDRESS
        expected(f) ==
            IF build.input[f] /= undefined THEN build.input[f]
            ELSE IF sdk.hasDefaults /\ sdk.defaults[f] /= undefined THEN sdk.defaults[f]
            ELSE constant(f)
        authorityGiven ==
            \/ build.input.accountCompressionAuthority /= undefined
            \/ sdk.hasDefaults /\ sdk.defaults.accountCompressionAuthority /= undefined
    IN  /\ build.pc \in {"resolved", "done"} =>
              \A f \in CommonFields : build.commonAccounts[f] = expected(f)
        /\ build.pc = "done" =>
              \A f \in CommonFields : build.instructionInput[f] = expected(f)
        /\ build.pc /= "idle" => build.derives = IF authorityGiven THEN 0 ELSE 1

\* an instruction whose authority comes from the SDK defaults and whose noop program
\* comes from the call although the SDK has a default for it
WitnessC10 ==
    /\ build.pc = "done"
    /\ build.input.accountCompressionAuthority = undefined
    /\ build.instructionInput.accountCompressionAuthority = "sdkAuthority"
    /\ sdk.defaults.noopProgram /= undefined
    /\ build.instructionInput.noopProgram = "callNoop"
    /\ build.instructionInput.registeredProgramPda = DEFAULT_REGISTERED_PROGRAM_PDA_ADDRESS
    /\ build.derives = 0

\* an instruction whose authority was derived
WitnessC10Derived ==
    /\ build.pc = "done"
    /\ build.derives = 1
    /\ build.instructionInput.accountCompressionAuthority =
           getProgramDerivedAddress(sdk.programAddress, CPI_AUTHORITY_SEED)

(***************************************************************************)
(* C11: every instruction a build*Instruction operation returns has the    *)
(* fixed accounts of its kind at their positions, followed by the caller's *)
(* remainingAccounts in their given order and unmodified, so that the      *)
(* account count grows by exactly the number of remaining accounts; when   *)
(* remainingAccounts is absent or empty the account list is exactly the    *)
(* fixed accounts.                                                         *)
(***************************************************************************)
ClaimC11 ==
    build.pc = "done" =>
        LET fixed == GeneratedInstruction(build.kind, build.instructionInput,
                                          sdk.programAddress).accounts
            remaining == build.input.remainingAccounts
            accounts == build.instruction.accounts
        IN /\ build.instruction.programAddress = sdk.programAddress
           /\ IF remaining.given /\ Len(remaining.list) > 0
              THEN /\ Len(accounts) = Len(fixed) + Len(remaining.list)
                   /\ \A i \in 1..Len(fixed) : accounts[i] = fixed[i]
                   /\ \A j \in 1..Len(remaining.list) :
                         accounts[Len(fixed) + j] = remaining.list[j]
              ELSE accounts = fixed

\* buildInvokeInstruction was given two different remaining accounts: ten fixed accounts less one
\* are followed by the two
WitnessC11 ==
    /\ build.pc = "done"
    /\ build.kind = "invoke"
    /\ build.input.remainingAccounts.given
    /\ build.input.remainingAccounts.list = <<Meta("R", WRITABLE), Meta("feePayer", READONLY)>>
    /\ Len(build.instruction.accounts) = 11
    /\ build.instruction.accounts[10] = Meta("R", WRITABLE)

\* a build*Instruction operation was given no remaining accounts, or an empty list
WitnessC11Empty ==
    /\ build.pc = "done"
    /\ build.kind = "invokeCpi"
    /\ build.input.remainingAccounts.given
    /\ build.input.remainingAccounts.list = <<>>
    /\ Len(build.instruction.accounts) = 11

(***************************************************************************)
(* C12: sendAndConfirmInstructions returns the signature of the signed     *)
(* transaction only when the sender has been invoked exactly once, with    *)
(* that transaction, and its promise has fulfilled; the sender invoked is  *)
(* the injected sendAndConfirmTransaction when there is one, and otherwise *)
(* the one built from rpcClient; once the sender's promise has rejected no *)
(* signature is returned; and with neither of the two the sender is never  *)
(* invoked and the call does not return.                                   *)
(***************************************************************************)
ClaimC12 ==
    (send.pc /= "idle" /\ send.via = "sendAndConfirmInstructions") =>
        LET input == send.input
            injected == input.sendAndConfirmTransaction
        IN /\ Len(send.sent) <= 1
           /\ "signature" \in DOMAIN send => send.pc = "returned"
           /\ send.pc = "returned" =>
                 /\ Len(send.sent) = 1
                 /\ send.sent[1].transaction = send.signedTransaction
                 /\ send.sent[1].promise.state = "fulfilled"
                 /\ send.signature = send.signedTransaction.signature
           /\ send.sent /= <<>> =>
                 /\ send.sent[1].sender =
                       IF injected /= undefined THEN injected
                       ELSE "factory(" \o input.rpcClient \o ")"
                 /\ send.sent[1].promise.state = "rejected" =>
                       send.pc \in {"sendAndConfirm", "threw"}
           /\ (injected = undefined /\ input.rpcClient = undefined) =>
                 /\ send.sent = <<>>
                 /\ send.pc \in {"getLatestBlockhash", "sign", "threw"}

\* both senders were available: the injected one was invoked, has completed, and the signature
\* is returned
WitnessC12 ==
    /\ send.pc = "returned"
    /\ send.via = "sendAndConfirmInstructions"
    /\ send.input.sendAndConfirmTransaction = "injected"
    /\ send.input.rpcClient = "rpcClient"
    /\ send.sent[1].sender = "injected"
    /\ send.signature = "signature of feePayer over memo at blockhash of rpcClient.rpc"

\* the sender built from rpcClient was invoked and has failed
WitnessC12SenderFailed ==
    /\ send.pc = "threw"
    /\ send.via = "sendAndConfirmInstructions"
    /\ send.error = "transaction failed"
    /\ send.sent[1].sender = "factory(rpcClient)"

\* neither sender was given: the call has thrown after signing
WitnessC12NoSender ==
    /\ send.pc = "threw"
    /\ send.via = "sendAndConfirmInstructions"
    /\ send.error = "sendAndConfirmTransaction or rpcClient is required."
    /\ send.sent = <<>>

(***************************************************************************)
(* C13: when addSystemAccountsV2 calls are in flight while insert,         *)
(* addPreAccounts* and toAccountMetas calls and further addSystemAccountsV2*)
(* calls run on the same PackedAccounts, systemAccounts is always the      *)
(* concatenation of the whole resolver lists of the calls that have        *)
(* completed, one list per call; the system region toAccountMetas returned *)
(* is such a concatenation too; and every index an insert call returned is *)
(* still the index of its address.                                         *)
(***************************************************************************)
\* the list getLightSystemAccountMetasV2 resolves to for a <<config, lightSystemConfig>> pair
ResolverList(c) ==
    LightSystemAccountMetas(c[1], c[2],
        getProgramDerivedAddress(c[1].selfProgram, CPI_AUTHORITY_SEED),
        Coalesce(c[2].accountCompressionAuthority,
                 deriveAccountCompressionAuthority(c[2].lightSystemProgram)))

RECURSIVE Flatten(_)
Flatten(lists) == IF lists = <<>> THEN <<>> ELSE Head(lists) \o Flatten(Tail(lists))

\* list is made of n whole resolver lists
WholeBlocks(list, n) ==
    \E cs \in [1..n -> ConcurrentConfigs] : list = Flatten([k \in 1..n |-> ResolverList(cs[k])])

ClaimC13 ==
    /\ WholeBlocks(systemAccounts, completed)
    /\ ret.op = "toAccountMetas" =>
          \E n \in 0..completed :
             WholeBlocks(SubSeq(ret.remainingAccounts, ret.returned.systemStart + 1,
                                ret.returned.packedStart), n)
    /\ \A p \in returnedIdx : p[1] \in DOMAIN map /\ map[p[1]][1] = p[2]

\* a call has pushed its list while another call, started before the push, is still in flight,
\* and toAccountMetas has since returned the list between a pre-account and an inserted account
WitnessC13 ==
    /\ calls[1] = FreeCall
    /\ calls[2].pc = "metas"
    /\ completed = 1
    /\ ret.op = "toAccountMetas"
    /\ ret.returned.systemStart = 1
    /\ ret.returned.packedStart = 1 + Len(systemAccounts)
    /\ Len(ret.remainingAccounts) = ret.returned.packedStart + 1
    /\ returnedIdx /= {}

\* two calls of different configurations have both pushed, the one with the cpi context first
WitnessC13Order ==
    /\ completed = 2
    /\ systemAccounts = Flatten(<<ResolverList(<<SystemAccountMetaConfigNewWithCpiContext("SySTEM1e", "Q"),
                                                  LightSystemConfig("SySTEM1e", "X")>>),
                                   ResolverList(<<SystemAccountMetaConfigNew("11111111"),
                                                  LightSystemConfig("SySTEM1e", undefined)>>)>>)
    /\ ret.op = "addSystemAccountsV2"
    /\ returnedIdx /= {}

====
